---- MODULE Spec2Model ----
(***************************************************************************)
(* AML graph scoring service: the FastAPI request handlers of app/main.py, *)
(* the feature lookup of app/feature_builder.py, the model loader of       *)
(* app/model_loader.py and the offline pipeline of ml/*.py.                *)
(*                                                                         *)
(* The graph store (Neo4j) and the classifier (XGBoost) are external: the  *)
(* store is a table of Account nodes and TRANSFER relationships that       *)
(* answers a query or raises, the classifier is a deterministic function   *)
(* of the loaded artifact and the feature vector.                          *)
(***************************************************************************)
EXTENDS Integers, Sequences, FiniteSets, TLC

(***************************************************************************)
(* Bounds of the model.                                                    *)
(***************************************************************************)
NumAccounts == 2   \* Account nodes 1..NumAccounts; id 0 has no node
MaxAmount == 1     \* transaction amounts 0..MaxAmount
NumWorkers == 2    \* request handlers running concurrently (threadpool)
MaxArtifact == 2   \* versions of models/aml_model.pkl written by the trainer
MaxRels == 4       \* TRANSFER relationships 1..MaxRels
MaxDepth == 5      \* requested depth ranges over -1..MaxDepth
MaxLimit == 4      \* requested limit ranges over 0..MaxLimit
MaxTx == 2         \* rows of data/raw/transactions.csv

\* Python None / Cypher null / pandas NaN (every real feature value is >= 0)
Null == -1

StoredIds == 1 .. NumAccounts
AccountIds == 0 .. NumAccounts
Amounts == 0 .. MaxAmount
Workers == 1 .. NumWorkers
Rels == 1 .. MaxRels

FeatureKeys == {"pagerank", "degree", "betweenness"}

\* An Account node whose centrality metrics have been computed.
FullNode(id) ==
    [pagerank |-> 10 * id + 1, degree |-> 10 * id + 2, betweenness |-> 10 * id + 3]

\* An Account node that exists but has no computed metric (properties unset).
NullNode == [pagerank |-> Null, degree |-> Null, betweenness |-> Null]

\* An Account node with degree set but no pagerank/betweenness yet.
PartialNode(id) == [pagerank |-> Null, degree |-> 10 * id + 2, betweenness |-> Null]

Stores == [StoredIds -> {"full", "null", "partial"}]

Node(st, id) ==
    CASE st[id] = "full" -> FullNode(id)
      [] st[id] = "null" -> NullNode
      [] OTHER -> PartialNode(id)

\* TRANSFER relationship r: a ring over the accounts, so that with more
\* relationships than accounts some pairs are joined by several transfers.
RelSrc(r) == ((r - 1) % NumAccounts) + 1
RelDst(r) == (r % NumAccounts) + 1
RelAmount(r) == r % (MaxAmount + 1)
RelIsFraud(r) == r % 2

VARIABLES
    proc,        \* position of the process start-up (imports of app/main.py)
    startupError,\* exception that ended the start-up, "none" otherwise
    artifact,    \* models/aml_model.pkl on disk: 0 = missing, else its version
    model,       \* app.model_loader.model: 0 = not loaded, else the version
    driver,      \* app.feature_builder.driver: "none" before it is created
    store,       \* Account nodes of the graph store
    transfers,   \* TRANSFER relationships of the graph store
    pc,          \* per worker: position inside the handler it runs
    req,         \* per worker: the request it handles
    loc,         \* per worker: the handler's local variables
    resp,        \* per worker: the response (or request failure) produced
    open,        \* per worker: sessions opened by its handler and not closed
    lastScore,   \* the last /score call that returned: body and risk_score
    txCsv,       \* data/raw/transactions.csv
    featuresCsv, \* data/processed/account_features.csv
    datasetCsv,  \* data/processed/training_dataset.csv
    X,           \* the trainer's design matrix
    stage        \* position of the offline pipeline

serviceVars == <<proc, startupError, model, driver>>
storeVars == <<store, transfers>>
workerVars == <<pc, req, loc, resp, open>>
offlineVars == <<txCsv, featuresCsv, datasetCsv, X, stage>>
vars == <<proc, startupError, artifact, model, driver, store, transfers,
          pc, req, loc, resp, open, lastScore,
          txCsv, featuresCsv, datasetCsv, X, stage>>

NoReq == [endpoint |-> "none"]
\* a local variable that has not been assigned
Unset == [unset |-> TRUE]
\* the locals of a handler at its entry; `faults` counts the store errors
\* the call has met
NoLoc ==
    [nq |-> 0, faults |-> 0, invoked |-> FALSE, src |-> Unset, dst |-> Unset,
     features |-> <<>>, query |-> Unset]
NoResp == [status |-> 0]
NoScore == [body |-> NoReq, risk_score |-> Null]

(***************************************************************************)
(* The graph store, as far as the queries of the service read it.          *)
(***************************************************************************)
StoreErrors == {"ServiceUnavailable", "SessionExpired"}

\* MATCH (a:Account {id: $id}) RETURN a.pagerank, a.degree, a.betweenness
MatchAccount(st, id) ==
    IF id \in StoredIds THEN <<Node(st, id)>> ELSE <<>>

\* Result.single(): the record, or None when the result is empty
Single(rows) ==
    IF Len(rows) = 0 THEN [none |-> TRUE] ELSE [none |-> FALSE, rec |-> rows[1]]

\* truth value of `res`: None and an empty Record are false
Truthy(res) == ~res.none /\ DOMAIN res.rec # {}

ZeroRecord == [pagerank |-> 0, degree |-> 0, betweenness |-> 0]

\* variant: no default record for an empty result
GetGraphFeaturesNoDefault(st, id) ==
    LET res == Single(MatchAccount(st, id))
    IN  IF res.none THEN NullNode ELSE res.rec

\* get_graph_features(account_id), when the store answers
GetGraphFeatures(st, id) ==
    LET res == Single(MatchAccount(st, id))
    IN  IF Truthy(res) THEN res.rec ELSE ZeroRecord

\* variant: close() after the query, skipped when the query raises
WithExitLeaksOnRaise(n, raised) == IF raised THEN n ELSE n - 1

\* driver.session() as a context manager: the session is closed when the
\* block is left, by a return and by an exception alike
WithExit(n, raised) == n - 1

(***************************************************************************)
(* The classifier.                                                         *)
(***************************************************************************)
\* contribution of one entry of the vector; a missing value (None, cast to
\* NaN) takes the tree's default branch and is not the same as 0
Entry(i, v) == IF v = Null THEN 50 + i ELSE i * v

RECURSIVE SumEntries(_, _)
SumEntries(v, i) == IF i = 0 THEN 0 ELSE Entry(i, v[i]) + SumEntries(v, i - 1)

\* model.predict_proba(features)[0][1], in percent
PredictProba(m, v) == (13 * m + SumEntries(v, Len(v))) % 101

\* variant: the fields grouped by account instead of by metric
FeatureVectorSwapped(tx, src, dst) ==
    <<tx.amount, src.pagerank, src.degree, src.betweenness,
      dst.pagerank, dst.degree, dst.betweenness>>

\* np.array([[tx.amount, src["pagerank"], ...]])
FeatureVector(tx, src, dst) ==
    <<tx.amount, src.pagerank, dst.pagerank, src.degree, dst.degree,
      src.betweenness, dst.betweenness>>

\* variant: the locals kept in one module-level slot
SlotShared(w) == 1

\* the slot holding a handler's local variables: one per call
Slot(w) == w

(***************************************************************************)
(* Process start-up: the imports at the top of app/main.py.                *)
(***************************************************************************)
\* variant: the existence check left out
ArtifactExistsUnchecked(a) == TRUE

\* os.path.exists(model_path)
ArtifactExists(a) == a # 0

\* from app.model_loader import model
ImportModelLoader ==
    /\ proc = "import_model_loader"
    /\ IF ArtifactExists(artifact)
       THEN /\ model' = artifact
            /\ proc' = "import_feature_builder"
            /\ UNCHANGED startupError
       ELSE /\ startupError' = "FileNotFoundError"
            /\ proc' = "crashed"
            /\ UNCHANGED model
    /\ UNCHANGED <<artifact, driver, storeVars, workerVars, lastScore, offlineVars>>

\* from app.feature_builder import get_graph_features, driver
ImportFeatureBuilder ==
    /\ proc = "import_feature_builder"
    /\ driver' = "driver"
    /\ proc' = "serving"
    /\ UNCHANGED <<startupError, artifact, model, storeVars, workerVars,
                   lastScore, offlineVars>>

\* ml/train_model.py run again while the service is up: joblib.dump
Retrain ==
    /\ artifact < MaxArtifact
    /\ artifact' = artifact + 1
    /\ UNCHANGED <<serviceVars, storeVars, workerVars, lastScore, offlineVars>>

(***************************************************************************)
(* Request handlers.  A handler runs on a worker; every step below is one  *)
(* atomic step of that worker, so handlers of different workers interleave *)
(* at their calls to the store.                                            *)
(***************************************************************************)
Begin(w, r, entry, locals) ==
    /\ proc = "serving"
    /\ pc[w] = "idle"
    /\ req' = [req EXCEPT ![w] = r]
    /\ loc' = [loc EXCEPT ![Slot(w)] = locals]
    /\ pc' = [pc EXCEPT ![w] = entry]
    /\ resp' = [resp EXCEPT ![w] = NoResp]
    /\ UNCHANGED <<serviceVars, artifact, storeVars, open, lastScore, offlineVars>>

\* the exception leaves the handler: the framework answers 500
Raise(w, e) ==
    /\ resp' = [resp EXCEPT ![w] = [status |-> 500, error |-> e]]
    /\ pc' = [pc EXCEPT ![w] = "failed"]

\* driver.session()
OpenSession(w) == open' = [open EXCEPT ![w] = @ + 1]

CloseSession(w, raised) == open' = [open EXCEPT ![w] = WithExit(@, raised)]

\* POST /score
ScoreStart(w, origs, dests, amts) ==
    \E o \in origs, d \in dests, a \in amts :
        Begin(w, [endpoint |-> "score", amount |-> a, nameOrig |-> o, nameDest |-> d],
              "src_open", NoLoc)

\* get_graph_features: with driver.session() as session
FeaturesOpen(w) ==
    /\ pc[w] \in {"src_open", "dst_open"}
    /\ OpenSession(w)
    /\ pc' = [pc EXCEPT ![w] = IF pc[w] = "src_open" THEN "src_run" ELSE "dst_run"]
    /\ UNCHANGED <<serviceVars, artifact, storeVars, req, loc, resp, lastScore, offlineVars>>

\* driver.session() raises: no session was opened
FeaturesOpenFail(w) ==
    /\ pc[w] \in {"src_open", "dst_open"}
    /\ loc' = [loc EXCEPT ![Slot(w)].faults = @ + 1]
    /\ \E e \in StoreErrors : Raise(w, e)
    /\ UNCHANGED <<serviceVars, artifact, storeVars, req, open, lastScore, offlineVars>>

\* get_graph_features: session.run(query, id=account_id).single() answers
FeaturesRun(w) ==
    /\ pc[w] \in {"src_run", "dst_run"}
    /\ LET l == loc[Slot(w)]
           id == IF pc[w] = "src_run" THEN req[w].nameOrig ELSE req[w].nameDest
           rec == GetGraphFeatures(store, id)
       IN  loc' = [loc EXCEPT ![Slot(w)] =
                      IF pc[w] = "src_run"
                      THEN [l EXCEPT !.src = rec, !.nq = @ + 1]
                      ELSE [l EXCEPT !.dst = rec, !.nq = @ + 1]]
    /\ CloseSession(w, FALSE)
    /\ pc' = [pc EXCEPT ![w] = IF pc[w] = "src_run" THEN "dst_open" ELSE "predict"]
    /\ UNCHANGED <<serviceVars, artifact, storeVars, req, resp, lastScore, offlineVars>>

\* variant: the error caught and the default record returned
LookupErrorSwallowed(e) == FALSE

\* get_graph_features has no try/except: an error of the store leaves it
LookupErrorPropagates(e) == TRUE

\* get_graph_features: session.run(...) raises
FeaturesRunFail(w) ==
    /\ pc[w] \in {"src_run", "dst_run"}
    /\ CloseSession(w, TRUE)
    /\ \E e \in StoreErrors :
          LET l == [loc[Slot(w)] EXCEPT !.nq = @ + 1, !.faults = @ + 1]
          IN  IF LookupErrorPropagates(e)
              THEN /\ loc' = [loc EXCEPT ![Slot(w)] = l]
                   /\ Raise(w, e)
              ELSE /\ loc' = [loc EXCEPT ![Slot(w)] =
                                 IF pc[w] = "src_run"
                                 THEN [l EXCEPT !.src = ZeroRecord]
                                 ELSE [l EXCEPT !.dst = ZeroRecord]]
                   /\ pc' = [pc EXCEPT ![w] =
                                IF pc[w] = "src_run" THEN "dst_open" ELSE "predict"]
                   /\ UNCHANGED resp
    /\ UNCHANGED <<serviceVars, artifact, storeVars, req, lastScore, offlineVars>>

\* features = np.array(...); risk = model.predict_proba(features)[0][1]
ScorePredict(w) ==
    /\ pc[w] = "predict"
    /\ LET l == loc[Slot(w)]
           features == FeatureVector(req[w], l.src, l.dst)
           risk == PredictProba(model, features)
       IN  /\ loc' = [loc EXCEPT ![Slot(w)] =
                         [l EXCEPT !.invoked = TRUE, !.features = features]]
           /\ resp' = [resp EXCEPT ![w] = [status |-> 200, risk_score |-> risk]]
    /\ pc' = [pc EXCEPT ![w] = "done"]
    /\ UNCHANGED <<serviceVars, artifact, storeVars, req, open, lastScore, offlineVars>>

\* the response is sent and the worker takes the next request
Return(w) ==
    /\ pc[w] \in {"done", "failed"}
    /\ lastScore' = IF req[w].endpoint = "score" /\ pc[w] = "done"
                    THEN [body |-> req[w], risk_score |-> resp[w].risk_score]
                    ELSE lastScore
    /\ pc' = [pc EXCEPT ![w] = "idle"]
    /\ req' = [req EXCEPT ![w] = NoReq]
    /\ loc' = [loc EXCEPT ![Slot(w)] = NoLoc]
    /\ resp' = [resp EXCEPT ![w] = NoResp]
    /\ UNCHANGED <<serviceVars, artifact, storeVars, open, offlineVars>>

(***************************************************************************)
(* GET /health                                                             *)
(***************************************************************************)
\* variant: `except ServiceUnavailable`
HealthCatchesOnlyUnavailable(e) == e = "ServiceUnavailable"

\* `except Exception` catches every error the store client raises
HealthCatches(e) == TRUE

\* f"error: {str(e)}"
ErrorStatus(e) == "error: " \o e

\* what the store may answer to RETURN 1 as status: one row, or none
HealthAnswers == {<<[status |-> 1]>>, <<>>}

HealthBody(neo4j_status) ==
    [model |-> "loaded", status |-> 200, health |-> "healthy", neo4j |-> neo4j_status]

HealthStart(w) == Begin(w, [endpoint |-> "health"], "health_open", NoLoc)

HealthOpen(w) ==
    /\ pc[w] = "health_open"
    /\ OpenSession(w)
    /\ pc' = [pc EXCEPT ![w] = "health_run"]
    /\ UNCHANGED <<serviceVars, artifact, storeVars, req, loc, resp, lastScore, offlineVars>>

\* driver.session() raises inside the try block
HealthOpenFail(w) ==
    /\ pc[w] = "health_open"
    /\ loc' = [loc EXCEPT ![Slot(w)].faults = @ + 1]
    /\ \E e \in StoreErrors :
          IF HealthCatches(e)
          THEN /\ resp' = [resp EXCEPT ![w] = HealthBody(ErrorStatus(e))]
               /\ pc' = [pc EXCEPT ![w] = "done"]
          ELSE Raise(w, e)
    /\ UNCHANGED <<serviceVars, artifact, storeVars, req, open, lastScore, offlineVars>>

\* session.run("RETURN 1 as status"); result.single()
HealthRun(w) ==
    /\ pc[w] = "health_run"
    /\ \E rows \in HealthAnswers :
          LET neo4j_status == IF Truthy(Single(rows)) THEN "connected" ELSE "disconnected"
          IN  resp' = [resp EXCEPT ![w] = HealthBody(neo4j_status)]
    /\ CloseSession(w, FALSE)
    /\ pc' = [pc EXCEPT ![w] = "done"]
    /\ UNCHANGED <<serviceVars, artifact, storeVars, req, loc, lastScore, offlineVars>>

\* session.run or result.single() raises inside the try block
HealthRunFail(w) ==
    /\ pc[w] = "health_run"
    /\ loc' = [loc EXCEPT ![Slot(w)].faults = @ + 1]
    /\ CloseSession(w, TRUE)
    /\ \E e \in StoreErrors :
          IF HealthCatches(e)
          THEN /\ resp' = [resp EXCEPT ![w] = HealthBody(ErrorStatus(e))]
               /\ pc' = [pc EXCEPT ![w] = "done"]
          ELSE Raise(w, e)
    /\ UNCHANGED <<serviceVars, artifact, storeVars, req, lastScore, offlineVars>>

(***************************************************************************)
(* The browsing queries.  Where a query states no order the store yields   *)
(* its rows by internal id.                                                *)
(***************************************************************************)
Min(a, b) == IF a < b THEN a ELSE b
Max(a, b) == IF a > b THEN a ELSE b

Range(f) == {f[i] : i \in DOMAIN f}

\* LIMIT $limit
Limit(rows, n) == SubSeq(rows, 1, Min(n, Len(rows)))

RECURSIVE InIdOrder(_)
InIdOrder(S) ==
    IF S = {} THEN <<>>
    ELSE LET m == CHOOSE x \in S : \A y \in S : x <= y
         IN  <<m>> \o InIdOrder(S \ {m})

\* ORDER BY t.amount DESC
RECURSIVE ByAmountDesc(_)
ByAmountDesc(S) ==
    IF S = {} THEN <<>>
    ELSE LET m == CHOOSE x \in S : \A y \in S :
                     \/ RelAmount(x) > RelAmount(y)
                     \/ RelAmount(x) = RelAmount(y) /\ x <= y
         IN  <<m>> \o ByAmountDesc(S \ {m})

\* ORDER BY a.pagerank DESC
RECURSIVE ByPagerankDesc(_, _)
ByPagerankDesc(st, S) ==
    IF S = {} THEN <<>>
    ELSE LET m == CHOOSE x \in S : \A y \in S :
                     \/ Node(st, x).pagerank > Node(st, y).pagerank
                     \/ Node(st, x).pagerank = Node(st, y).pagerank /\ x <= y
         IN  <<m>> \o ByPagerankDesc(st, S \ {m})

\* a.pagerank IS NOT NULL
HasPagerank(st, id) == Node(st, id).pagerank # Null

\* MATCH (src:Account)-[t:TRANSFER]->(dst:Account) WHERE ... both pageranks set
TransferMatches(st, tr, fraud) ==
    {r \in tr : /\ HasPagerank(st, RelSrc(r))
                /\ HasPagerank(st, RelDst(r))
                /\ (fraud = Null \/ RelIsFraud(r) = fraud)}

\* GET /accounts/sample
SampleAccounts(st, limit) ==
    LET ids == Limit(ByPagerankDesc(st, {a \in StoredIds : HasPagerank(st, a)}), limit)
        accounts == [i \in 1 .. Len(ids) |->
                        [id |-> ids[i], pagerank |-> Node(st, ids[i]).pagerank,
                         degree |-> Node(st, ids[i]).degree,
                         betweenness |-> Node(st, ids[i]).betweenness]]
    IN  [status |-> 200, accounts |-> accounts, count |-> Len(accounts)]

TransactionRecord(r) ==
    [amount |-> RelAmount(r), nameOrig |-> RelSrc(r), nameDest |-> RelDst(r),
     isFraud |-> RelIsFraud(r)]

TransactionList(rels) ==
    LET transactions == [i \in 1 .. Len(rels) |-> TransactionRecord(rels[i])]
    IN  [status |-> 200, count |-> Len(transactions), transactions |-> transactions]

\* GET /transactions/sample
SampleTransactions(st, tr, limit) ==
    TransactionList(Limit(ByAmountDesc(TransferMatches(st, tr, Null)), limit))

\* GET /transactions/fraud-samples
FraudSamples(st, tr, limit) ==
    TransactionList(Limit(InIdOrder(TransferMatches(st, tr, 1)), limit))

\* GET /transactions/normal-samples
NormalSamples(st, tr, limit) ==
    TransactionList(Limit(InIdOrder(TransferMatches(st, tr, 0)), limit))

\* `if id not in nodes_dict: nodes_dict[id] = node`, in insertion order
AddNode(nodes, n) ==
    IF \E i \in 1 .. Len(nodes) : nodes[i].id = n.id THEN nodes ELSE Append(nodes, n)

GraphBody(nodes, edges) ==
    [status |-> 200, count |-> [nodes |-> Len(nodes), edges |-> Len(edges)],
     nodes |-> nodes, edges |-> edges]

RECURSIVE NetworkNodes(_, _, _, _)
NetworkNodes(st, rels, i, nodes) ==
    IF i > Len(rels) THEN nodes
    ELSE LET s == RelSrc(rels[i])
             t == RelDst(rels[i])
             source == [id |-> s, pagerank |-> Node(st, s).pagerank,
                        degree |-> Node(st, s).degree, type |-> "account"]
             target == [id |-> t, pagerank |-> Node(st, t).pagerank,
                        degree |-> Node(st, t).degree, type |-> "account"]
         IN  NetworkNodes(st, rels, i + 1, AddNode(AddNode(nodes, source), target))

\* GET /graph/network
NetworkGraph(st, tr, limit) ==
    LET rels == Limit(ByAmountDesc(TransferMatches(st, tr, Null)), limit)
        edges == [i \in 1 .. Len(rels) |->
                     [amount |-> RelAmount(rels[i]), isFraud |-> RelIsFraud(rels[i]),
                      source |-> RelSrc(rels[i]), target |-> RelDst(rels[i])]]
    IN  GraphBody(NetworkNodes(st, rels, 1, <<>>), edges)

RECURSIVE FraudNodes(_, _, _, _)
FraudNodes(st, rels, i, nodes) ==
    IF i > Len(rels) THEN nodes
    ELSE LET s == RelSrc(rels[i])
             t == RelDst(rels[i])
             source == [id |-> s, pagerank |-> Node(st, s).pagerank,
                        degree |-> Node(st, s).degree,
                        betweenness |-> Node(st, s).betweenness,
                        type |-> "fraud_account"]
             target == [id |-> t, pagerank |-> Node(st, t).pagerank,
                        degree |-> Node(st, t).degree,
                        betweenness |-> Node(st, t).betweenness,
                        type |-> "fraud_account"]
         IN  FraudNodes(st, rels, i + 1, AddNode(AddNode(nodes, source), target))

\* GET /graph/fraud-network
FraudNetwork(st, tr, limit) ==
    LET rels == Limit(InIdOrder(TransferMatches(st, tr, 1)), limit)
        edges == [i \in 1 .. Len(rels) |->
                     [amount |-> RelAmount(rels[i]), isFraud |-> 1,
                      source |-> RelSrc(rels[i]), target |-> RelDst(rels[i])]]
    IN  GraphBody(FraudNodes(st, rels, 1, <<>>), edges)

(***************************************************************************)
(* GET /graph/account/{account_id}                                         *)
(***************************************************************************)
\* variant: min(depth, 3) alone
ClampDepthUpperOnly(depth) == Min(depth, 3)

\* depth = max(1, min(depth, 3))
ClampDepth(depth) == Max(1, Min(depth, 3))

\* the query text (the hop bound is a literal of it) and its parameters
SubgraphQuery(account_id, depth, limit) ==
    [limit |-> limit, account_id |-> account_id, hops |-> ClampDepth(depth)]

OtherEnd(r, n) == IF RelSrc(r) = n THEN RelDst(r) ELSE RelSrc(r)

\* (center)-[t:TRANSFER*1..hops]-(connected): the paths leaving node n that
\* extend `path`, depth first; a path uses no relationship twice
RECURSIVE PathsFrom(_, _, _, _)
RECURSIVE Expand(_, _, _, _, _)
PathsFrom(n, path, hops, tr) ==
    IF hops <= 0 THEN <<>> ELSE Expand(n, path, hops, tr, 1)

Expand(n, path, hops, tr, r) ==
    IF r > MaxRels THEN <<>>
    ELSE (IF r \in tr /\ r \notin Range(path) /\ n \in {RelSrc(r), RelDst(r)}
          THEN <<[rels |-> Append(path, r), connected |-> OtherEnd(r, n)]>>
               \o PathsFrom(OtherEnd(r, n), Append(path, r), hops - 1, tr)
          ELSE <<>>)
         \o Expand(n, path, hops, tr, r + 1)

\* the rows the store answers to the query
SubgraphRows(st, tr, q) ==
    IF q.account_id \in StoredIds /\ HasPagerank(st, q.account_id)
    THEN Limit(PathsFrom(q.account_id, <<>>, q.hops, tr), q.limit)
    ELSE <<>>

RECURSIVE SubgraphFold(_, _, _, _, _, _)
SubgraphFold(st, c, rows, i, nodes, edges) ==
    IF i > Len(rows) THEN [nodes |-> nodes, edges |-> edges]
    ELSE LET k == rows[i].connected
             center == [id |-> c, pagerank |-> Node(st, c).pagerank,
                        degree |-> Node(st, c).degree,
                        betweenness |-> Node(st, c).betweenness, type |-> "center"]
             connected == [id |-> k, pagerank |-> Node(st, k).pagerank,
                           degree |-> Node(st, k).degree, type |-> "connected"]
             transfers_ == rows[i].rels
             added == [j \in 1 .. Len(transfers_) |->
                          [amount |-> RelAmount(transfers_[j]),
                           isFraud |-> RelIsFraud(transfers_[j]),
                           source |-> c, target |-> k]]
         IN  SubgraphFold(st, c, rows, i + 1,
                          AddNode(AddNode(nodes, center), connected), edges \o added)

\* the response built from the rows of query q
SubgraphResponse(st, tr, q) ==
    LET g == SubgraphFold(st, q.account_id, SubgraphRows(st, tr, q), 1, <<>>, <<>>)
    IN  [status |-> 200,
         count |-> [nodes |-> Len(g.nodes), edges |-> Len(g.edges)],
         nodes |-> g.nodes, edges |-> g.edges, center_account |-> q.account_id]

(***************************************************************************)
(* The browsing handlers: one query inside `with driver.session()`.        *)
(***************************************************************************)
ListEndpoints ==
    {"accounts_sample", "transactions_sample", "fraud_samples", "normal_samples",
     "graph_network", "fraud_network"}

BrowseResponse(st, tr, r, l) ==
    CASE r.endpoint = "accounts_sample" -> SampleAccounts(st, r.limit)
      [] r.endpoint = "transactions_sample" -> SampleTransactions(st, tr, r.limit)
      [] r.endpoint = "fraud_samples" -> FraudSamples(st, tr, r.limit)
      [] r.endpoint = "normal_samples" -> NormalSamples(st, tr, r.limit)
      [] r.endpoint = "graph_network" -> NetworkGraph(st, tr, r.limit)
      [] r.endpoint = "fraud_network" -> FraudNetwork(st, tr, r.limit)
      [] OTHER -> SubgraphResponse(st, tr, l.query)

ListStart(w, endpoints, limits) ==
    \E e \in endpoints, n \in limits :
        Begin(w, [endpoint |-> e, limit |-> n], "query_open", NoLoc)

SubgraphStart(w, ids, depths, limits) ==
    \E a \in ids, d \in depths, n \in limits :
        Begin(w, [endpoint |-> "graph_account", limit |-> n, depth |-> d, account_id |-> a],
              "query_open", [NoLoc EXCEPT !.query = SubgraphQuery(a, d, n)])

QueryOpen(w) ==
    /\ pc[w] = "query_open"
    /\ OpenSession(w)
    /\ pc' = [pc EXCEPT ![w] = "query_run"]
    /\ UNCHANGED <<serviceVars, artifact, storeVars, req, loc, resp, lastScore, offlineVars>>

QueryOpenFail(w) ==
    /\ pc[w] = "query_open"
    /\ loc' = [loc EXCEPT ![Slot(w)].faults = @ + 1]
    /\ \E e \in StoreErrors : Raise(w, e)
    /\ UNCHANGED <<serviceVars, artifact, storeVars, req, open, lastScore, offlineVars>>

\* session.run(query, ...) answers and the rows are reshaped
QueryRun(w) ==
    /\ pc[w] = "query_run"
    /\ resp' = [resp EXCEPT ![w] = BrowseResponse(store, transfers, req[w], loc[Slot(w)])]
    /\ CloseSession(w, FALSE)
    /\ pc' = [pc EXCEPT ![w] = "done"]
    /\ UNCHANGED <<serviceVars, artifact, storeVars, req, loc, lastScore, offlineVars>>

QueryRunFail(w) ==
    /\ pc[w] = "query_run"
    /\ loc' = [loc EXCEPT ![Slot(w)].faults = @ + 1]
    /\ CloseSession(w, TRUE)
    /\ \E e \in StoreErrors : Raise(w, e)
    /\ UNCHANGED <<serviceVars, artifact, storeVars, req, lastScore, offlineVars>>

(***************************************************************************)
(* The offline pipeline: ml/export_features.py, ml/build_dataset.py and    *)
(* ml/train_model.py.  A table is a sequence of rows, a row a function     *)
(* from column names to values; an empty CSV cell reads back as NaN.       *)
(***************************************************************************)
\* a.community: set together with the other metrics
Community(st, id) == IF st[id] = "full" THEN id % 2 ELSE Null

\* MATCH (a:Account) RETURN a.id, a.pagerank, a.degree, a.betweenness, a.community
ExportRows(st) ==
    [i \in 1 .. NumAccounts |->
        [id |-> i, pagerank |-> Node(st, i).pagerank, degree |-> Node(st, i).degree,
         betweenness |-> Node(st, i).betweenness, community |-> Community(st, i)]]

\* the right-hand columns of a left row that matches no right row
NaNRow(right_columns) == [c \in right_columns |-> Null]

FeatureColumns == {"id", "pagerank", "degree", "betweenness", "community"}

\* variant: how="inner"
InnerMatches(l, right, key) ==
    LET Hit(r) == r.id = l[key]
        m == SelectSeq(right, Hit)
    IN  [j \in 1 .. Len(m) |-> l @@ m[j]]

\* DataFrame.merge(features, left_on=key, right_on="id", how="left"): the rows
\* a left row contributes
LeftMatches(l, right, key) ==
    LET Hit(r) == r.id = l[key]
        m == SelectSeq(right, Hit)
    IN  IF Len(m) = 0 THEN <<l @@ NaNRow(FeatureColumns)>>
        ELSE [j \in 1 .. Len(m) |-> l @@ m[j]]

RECURSIVE Merge(_, _, _, _)
Merge(left, right, key, i) ==
    IF i > Len(left) THEN <<>>
    ELSE LeftMatches(left[i], right, key) \o Merge(left, right, key, i + 1)

SrcColumns ==
    [pagerank |-> "src_pagerank", degree |-> "src_degree",
     betweenness |-> "src_betweenness", community |-> "src_community"]

DstColumns ==
    [pagerank |-> "dst_pagerank", degree |-> "dst_degree",
     betweenness |-> "dst_betweenness", community |-> "dst_community"]

NewName(c, columns) == IF c \in DOMAIN columns THEN columns[c] ELSE c

\* DataFrame.rename(columns=...) followed by drop(columns=["id"])
RenameDrop(row, columns) ==
    LET kept == DOMAIN row \ {"id"}
    IN  [n \in {NewName(c, columns) : c \in kept} |->
            row[CHOOSE c \in kept : NewName(c, columns) = n]]

\* ml/build_dataset.py: the rows of training_dataset.csv
BuildDataset(tx, features) ==
    LET m1 == Merge(tx, features, "nameOrig", 1)
        t1 == [i \in 1 .. Len(m1) |-> RenameDrop(m1[i], SrcColumns)]
        m2 == Merge(t1, features, "nameDest", 1)
    IN  [i \in 1 .. Len(m2) |-> RenameDrop(m2[i], DstColumns)]

\* ml/train_model.py: the feature columns, in the order the model is fitted on
features ==
    <<"amount", "src_pagerank", "dst_pagerank", "src_degree", "dst_degree",
      "src_betweenness", "dst_betweenness">>

\* df[features]: the columns of one row, in the order of `features`
SelectColumns(row) == [k \in 1 .. Len(features) |-> row[features[k]]]

\* .fillna(0)
FillNa(v) == IF v = Null THEN 0 ELSE v

\* X = df[features].fillna(0)
DesignMatrix(df) ==
    [i \in 1 .. Len(df) |->
        [k \in 1 .. Len(features) |-> FillNa(SelectColumns(df[i])[k])]]

\* the rows data/raw/transactions.csv may hold
TxRows ==
    {[amount |-> (o + d) % (MaxAmount + 1), nameOrig |-> o, nameDest |-> d,
      isFraud |-> (o * d) % 2] : o \in AccountIds, d \in AccountIds}

RECURSIVE SeqsUpTo(_, _)
SeqsUpTo(S, n) ==
    IF n = 0 THEN {<<>>}
    ELSE LET shorter == SeqsUpTo(S, n - 1)
         IN  shorter \cup {Append(q, x) : q \in shorter, x \in S}

\* python ml/export_features.py
ExportFeatures ==
    /\ stage = "export"
    /\ featuresCsv' = ExportRows(store)
    /\ stage' = "build"
    /\ UNCHANGED <<serviceVars, artifact, storeVars, workerVars, lastScore,
                   txCsv, datasetCsv, X>>

\* python ml/build_dataset.py
BuildDatasetRun ==
    /\ stage = "build"
    /\ datasetCsv' = BuildDataset(txCsv, featuresCsv)
    /\ stage' = "train"
    /\ UNCHANGED <<serviceVars, artifact, storeVars, workerVars, lastScore,
                   txCsv, featuresCsv, X>>

\* python ml/train_model.py: X is built, the classifier fitted and dumped
TrainModel ==
    /\ stage = "train"
    /\ X' = DesignMatrix(datasetCsv)
    /\ artifact' = 1
    /\ stage' = "done"
    /\ UNCHANGED <<serviceVars, storeVars, workerVars, lastScore,
                   txCsv, featuresCsv, datasetCsv>>

(***************************************************************************)
(* Specifications.                                                         *)
(***************************************************************************)
IdleWorkers ==
    /\ pc = [w \in Workers |-> "idle"]
    /\ req = [w \in Workers |-> NoReq]
    /\ loc = [w \in Workers |-> NoLoc]
    /\ resp = [w \in Workers |-> NoResp]
    /\ open = [w \in Workers |-> 0]
    /\ lastScore = NoScore

NoOffline ==
    /\ txCsv = <<>>
    /\ featuresCsv = <<>>
    /\ datasetCsv = <<>>
    /\ X = <<>>
    /\ stage = "idle"

NotStarted ==
    /\ proc = "import_model_loader"
    /\ startupError = "none"
    /\ model = 0
    /\ driver = "none"

\* One handler at a time, over every request and every store.
Init ==
    /\ NotStarted
    /\ artifact \in {0, 1}
    /\ store \in Stores
    /\ transfers = Rels
    /\ IdleWorkers
    /\ NoOffline

Handle(w, ids, amts, depths, limits) ==
    \/ ScoreStart(w, ids, ids, amts)
    \/ FeaturesOpen(w)
    \/ FeaturesOpenFail(w)
    \/ FeaturesRun(w)
    \/ FeaturesRunFail(w)
    \/ ScorePredict(w)
    \/ HealthStart(w)
    \/ HealthOpen(w)
    \/ HealthOpenFail(w)
    \/ HealthRun(w)
    \/ HealthRunFail(w)
    \/ ListStart(w, ListEndpoints, limits)
    \/ SubgraphStart(w, ids, depths, limits)
    \/ QueryOpen(w)
    \/ QueryOpenFail(w)
    \/ QueryRun(w)
    \/ QueryRunFail(w)
    \/ Return(w)

Next ==
    \/ ImportModelLoader
    \/ ImportFeatureBuilder
    \/ Handle(1, AccountIds, Amounts, {1}, {MaxLimit})

Spec == Init /\ [][Next]_vars

\* Stores whose accounts have all of their metrics or none
TwoKindStores == [StoredIds -> {"full", "null"}]

\* Handlers of several workers interleaved, over a few requests.
InitConc ==
    /\ NotStarted
    /\ artifact = 1
    /\ store \in {[a \in StoredIds |-> "full"], [a \in StoredIds |-> "null"]}
    /\ transfers = Rels
    /\ IdleWorkers
    /\ NoOffline

NextConc ==
    \/ ImportModelLoader
    \/ ImportFeatureBuilder
    \/ \E w \in Workers :
          \/ ScoreStart(w, {0, 1}, {1}, {MaxAmount})
          \/ FeaturesOpen(w)
          \/ FeaturesOpenFail(w)
          \/ FeaturesRun(w)
          \/ FeaturesRunFail(w)
          \/ ScorePredict(w)
          \/ HealthStart(w)
          \/ HealthOpen(w)
          \/ HealthOpenFail(w)
          \/ HealthRun(w)
          \/ HealthRunFail(w)
          \/ ListStart(w, {"accounts_sample"}, {1})
          \/ SubgraphStart(w, {1}, {1}, {1})
          \/ QueryOpen(w)
          \/ QueryOpenFail(w)
          \/ QueryRun(w)
          \/ QueryRunFail(w)
          \/ Return(w)

SpecConc == InitConc /\ [][NextConc]_vars

\* Start-up of the process while the trainer may rewrite the artifact.
InitStartup ==
    /\ NotStarted
    /\ artifact \in {0, 1}
    /\ store \in TwoKindStores
    /\ transfers = Rels
    /\ IdleWorkers
    /\ NoOffline

NextStartup ==
    \/ ImportModelLoader
    \/ ImportFeatureBuilder
    \/ Retrain
    \/ Handle(1, {0, 1}, {MaxAmount}, {1}, {1})

SpecStartup == InitStartup /\ [][NextStartup]_vars

\* The subgraph endpoint over every graph, depth and limit.
InitSubgraph ==
    /\ NotStarted
    /\ artifact = 1
    /\ store \in TwoKindStores
    /\ transfers \in SUBSET Rels
    /\ IdleWorkers
    /\ NoOffline

NextSubgraph ==
    \/ ImportModelLoader
    \/ ImportFeatureBuilder
    \/ SubgraphStart(1, AccountIds, (-1) .. MaxDepth, 0 .. MaxLimit)
    \/ QueryOpen(1)
    \/ QueryOpenFail(1)
    \/ QueryRun(1)
    \/ QueryRunFail(1)
    \/ Return(1)

SpecSubgraph == InitSubgraph /\ [][NextSubgraph]_vars

\* The offline pipeline, run in its documented order.
InitOffline ==
    /\ NotStarted
    /\ artifact = 0
    /\ store \in TwoKindStores
    /\ transfers = Rels
    /\ IdleWorkers
    /\ txCsv \in SeqsUpTo(TxRows, MaxTx)
    /\ featuresCsv = <<>>
    /\ datasetCsv = <<>>
    /\ X = <<>>
    /\ stage = "export"

NextOffline ==
    \/ ExportFeatures
    \/ BuildDatasetRun
    \/ TrainModel

SpecOffline == InitOffline /\ [][NextOffline]_vars

(***************************************************************************)
(* Properties.                                                             *)
(***************************************************************************)
Scoring(w) == req[w].endpoint = "score"

SrcFetched(w) == pc[w] \in {"dst_open", "dst_run", "predict", "done"}
DstFetched(w) == pc[w] \in {"predict", "done"}

Probabilities == 0 .. 100

\* C1: an account id with no Account node is fetched as the record
\* {pagerank: 0, degree: 0, betweenness: 0}, and a /score call whose lookups
\* were answered returns a risk_score also when the origin and/or the
\* destination is unknown: the only request failures are errors of the store.
C1_UnknownAccountZeroRecord ==
    \A w \in Workers :
        Scoring(w) =>
            /\ SrcFetched(w) /\ req[w].nameOrig \notin StoredIds
                  => loc[w].src = [pagerank |-> 0, degree |-> 0, betweenness |-> 0]
            /\ DstFetched(w) /\ req[w].nameDest \notin StoredIds
                  => loc[w].dst = [pagerank |-> 0, degree |-> 0, betweenness |-> 0]
            /\ pc[w] = "done"
                  => resp[w].status = 200 /\ resp[w].risk_score \in Probabilities
            /\ pc[w] = "failed"
                  => loc[w].faults > 0 /\ resp[w].error \in StoreErrors

\* a /score call with an unknown origin and a known destination returned
C1_Witness ==
    \E w \in Workers :
        /\ Scoring(w) /\ pc[w] = "done"
        /\ req[w].nameOrig \notin StoredIds /\ req[w].nameDest \in StoredIds
        /\ loc[w].src = ZeroRecord /\ resp[w].status = 200

\* the dataset row the builder makes of a transaction, given the feature
\* records of its two accounts
DatasetRowOf(tx, src, dst) ==
    LET one(id, rec) == [id |-> id, community |-> Null] @@ rec
        table == IF tx.nameOrig = tx.nameDest
                 THEN <<one(tx.nameOrig, src)>>
                 ELSE <<one(tx.nameOrig, src), one(tx.nameDest, dst)>>
    IN  BuildDataset(<<[amount |-> tx.amount, nameOrig |-> tx.nameOrig,
                        nameDest |-> tx.nameDest, isFraud |-> 0]>>, table)[1]

\* C2: the vector handed to the model is [amount, src_pagerank, dst_pagerank,
\* src_degree, dst_degree, src_betweenness, dst_betweenness], src_* taken from
\* the record fetched for nameOrig and dst_* from the one fetched for nameDest,
\* which is position for position the trainer's column selection df[features]
\* of the dataset row of the same transaction.
C2_VectorOrderMatchesTrainer ==
    \A w \in Workers :
        Scoring(w) /\ pc[w] = "done" =>
            LET src == GetGraphFeatures(store, req[w].nameOrig)
                dst == GetGraphFeatures(store, req[w].nameDest)
                v == loc[w].features
            IN  /\ Len(v) = 7 /\ Len(features) = 7
                /\ v = <<req[w].amount, src.pagerank, dst.pagerank, src.degree,
                         dst.degree, src.betweenness, dst.betweenness>>
                /\ v = SelectColumns(DatasetRowOf(req[w], src, dst))
                /\ resp[w].risk_score = PredictProba(model, v)

\* a scored transaction between two different accounts with all metrics set:
\* the seven entries of the vector are pairwise different
C2_Witness ==
    \E w \in Workers :
        /\ Scoring(w) /\ pc[w] = "done"
        /\ req[w].nameOrig = 1 /\ req[w].nameDest = 2 /\ req[w].amount = 1
        /\ store[1] = "full" /\ store[2] = "full"
        /\ Cardinality(Range(loc[w].features)) = 7

SubgraphCall(w) == req[w].endpoint = "graph_account"

\* C3: the hop bound of the traversal query is the requested depth clamped
\* into 1..3: a depth >= 4 gives the query and the response of depth 3, a
\* depth <= 0 those of depth 1, for the same account, limit and store.
C3_DepthClamped ==
    \A w \in Workers :
        SubgraphCall(w) /\ pc[w] \in {"query_open", "query_run", "done"} =>
            LET d == req[w].depth
                q == loc[w].query
                as(h) == [limit |-> req[w].limit, account_id |-> req[w].account_id,
                          hops |-> h]
            IN  /\ q.hops \in 1 .. 3
                /\ d \in 1 .. 3 => q = as(d)
                /\ d >= 4 => q = as(3)
                /\ d <= 0 => q = as(1)
                /\ pc[w] = "done" /\ d \in 1 .. 3
                      => resp[w] = SubgraphResponse(store, transfers, as(d))
                /\ pc[w] = "done" /\ d >= 4
                      => resp[w] = SubgraphResponse(store, transfers, as(3))
                /\ pc[w] = "done" /\ d <= 0
                      => resp[w] = SubgraphResponse(store, transfers, as(1))

\* a request of depth 4 answered on a graph where four hops would have
\* reached more than three do
C3_Witness ==
    \E w \in Workers :
        /\ SubgraphCall(w) /\ pc[w] = "done" /\ req[w].depth = 4
        /\ Len(resp[w].edges) > 0
        /\ resp[w] # SubgraphResponse(store, transfers,
                        [limit |-> req[w].limit, account_id |-> req[w].account_id,
                         hops |-> 4])

HealthCall(w) == req[w].endpoint = "health"

ErrorStrings == {"error: " \o e : e \in StoreErrors}

HealthNeverRaises(w, stati) ==
    HealthCall(w) =>
        /\ pc[w] # "failed"
        /\ pc[w] = "done" =>
              /\ resp[w].status = 200
              /\ resp[w].health = "healthy"
              /\ resp[w].model = "loaded"
              /\ resp[w].neo4j \in stati

\* C4 as stated: /health never raises and answers 200 with status "healthy",
\* model "loaded" and a neo4j field that is "connected" or starts with
\* "error: ", whatever the store does (also when the query returns no row).
C4_Original ==
    \A w \in Workers : HealthNeverRaises(w, {"connected"} \cup ErrorStrings)

\* C4 amended: /health never raises and answers 200 with status "healthy",
\* model "loaded" and a neo4j field that is "connected", "disconnected" (the
\* query returned no row) or a string starting with "error: ".
C4_HealthNeverRaises ==
    \A w \in Workers :
        /\ HealthNeverRaises(w, {"connected", "disconnected"} \cup ErrorStrings)
        /\ HealthCall(w) /\ pc[w] = "done" =>
              (resp[w].neo4j \in ErrorStrings <=> loc[w].faults > 0)

\* a health check whose query raised was answered with the error as a string
C4_Witness ==
    \E w \in Workers :
        /\ HealthCall(w) /\ pc[w] = "done" /\ loc[w].nq = 0 /\ loc[w].faults = 1
        /\ open[w] = 0
        /\ resp[w].neo4j = "error: ServiceUnavailable"

\* C5: the model is loaded once, at process start, and never changed
\* afterwards (also when the artifact on disk is rewritten); with the
\* artifact missing the start-up ends in FileNotFoundError; no request of any
\* endpoint is handled unless the model has been loaded before it.
C5_ModelLoadedOnceAtStart ==
    /\ [](\A w \in Workers :
             pc[w] # "idle" => proc = "serving" /\ model # 0 /\ driver = "driver")
    /\ [](proc = "serving" => model # 0 /\ startupError = "none")
    /\ [](proc = "crashed" => model = 0 /\ startupError = "FileNotFoundError")
    /\ [][model # 0 => model' = model]_vars
    /\ [][proc = "import_model_loader" /\ proc' # proc =>
             IF artifact = 0
             THEN proc' = "crashed" /\ startupError' = "FileNotFoundError"
             ELSE model' = artifact /\ startupError' = "none"]_vars
    /\ [][(proc \in {"serving", "crashed"}) => proc' = proc]_vars

\* a request answered by the model loaded at start after the artifact on disk
\* was rewritten
C5_Witness ==
    \E w \in Workers :
        /\ Scoring(w) /\ pc[w] = "done"
        /\ model = 1 /\ artifact = 2
        /\ resp[w].risk_score = PredictProba(1, loc[w].features)

\* C6: a /score call runs two read queries (nameOrig, then nameDest), writes
\* nothing to the store and leaves the model, the driver and every other
\* service variable unchanged, so that after any interleaving of earlier
\* requests two /score calls with the same body return the same risk_score.
C6_ScoreIsStateless ==
    /\ [](\A w \in Workers :
             Scoring(w) =>
                /\ pc[w] \in {"src_open", "src_run"} => loc[w].nq = 0
                /\ pc[w] \in {"dst_open", "dst_run"} /\ loc[w].faults = 0 => loc[w].nq = 1
                /\ pc[w] \in {"predict", "done"} => loc[w].nq = 2
                /\ pc[w] = "done" /\ lastScore.body = req[w]
                      => resp[w].risk_score = lastScore.risk_score
                /\ \A u \in Workers :
                      Scoring(u) /\ pc[u] = "done" /\ pc[w] = "done" /\ req[u] = req[w]
                         => resp[u].risk_score = resp[w].risk_score)
    /\ [][(\E w \in Workers : pc'[w] # pc[w]) =>
             UNCHANGED <<proc, startupError, artifact, model, driver, store, transfers>>]_vars

\* a /score call returned the risk_score of an earlier call with the same
\* body while another worker was in the middle of a /score call of its own
C6_Witness ==
    \E w, u \in Workers :
        /\ w # u
        /\ Scoring(w) /\ pc[w] = "done" /\ lastScore.body = req[w]
        /\ Scoring(u) /\ pc[u] = "dst_run" /\ req[u] # req[w]

\* C7: a store failure during either feature lookup of a /score call ends the
\* call as a request failure: no risk_score, the model not invoked, no
\* default record substituted for the failed lookup, no retry.
C7_StoreFailurePropagates ==
    \A w \in Workers :
        Scoring(w) =>
            /\ loc[w].faults > 0 =>
                  /\ pc[w] = "failed"
                  /\ resp[w].status = 500
                  /\ "risk_score" \notin DOMAIN resp[w]
                  /\ ~loc[w].invoked
                  /\ loc[w].features = <<>>
                  /\ loc[w].dst = Unset
                  /\ loc[w].nq = 0 => loc[w].src = Unset
                  /\ loc[w].src = Unset => loc[w].nq <= 1
            /\ loc[w].faults <= 1
            /\ loc[w].nq <= 2
            /\ loc[w].invoked => loc[w].src # Unset /\ loc[w].dst # Unset

\* the second lookup of a /score call failed after the first had succeeded
C7_Witness ==
    \E w \in Workers :
        /\ Scoring(w) /\ pc[w] = "failed"
        /\ loc[w].nq = 2 /\ loc[w].faults = 1
        /\ loc[w].src # Unset /\ loc[w].dst = Unset

\* C8: the builder's two joins are left joins on the account id: every
\* transaction keeps its row, with null src_* (dst_*) columns when its origin
\* (destination) has no exported feature row; the trainer replaces the nulls
\* by 0 before fitting.
C8_LeftJoinKeepsRows ==
    /\ stage \in {"train", "done"} =>
          /\ Len(datasetCsv) = Len(txCsv)
          /\ \A i \in 1 .. Len(txCsv) :
                LET t == txCsv[i]
                    r == datasetCsv[i]
                    exported(id) == \E j \in 1 .. Len(featuresCsv) : featuresCsv[j].id = id
                IN  /\ DOMAIN r = {"nameOrig", "nameDest", "amount", "isFraud",
                                   "src_pagerank", "src_degree", "src_betweenness",
                                   "src_community", "dst_pagerank", "dst_degree",
                                   "dst_betweenness", "dst_community"}
                    /\ \A c \in DOMAIN t : r[c] = t[c]
                    /\ ~exported(t.nameOrig) =>
                          /\ r.src_pagerank = Null /\ r.src_degree = Null
                          /\ r.src_betweenness = Null /\ r.src_community = Null
                    /\ ~exported(t.nameDest) =>
                          /\ r.dst_pagerank = Null /\ r.dst_degree = Null
                          /\ r.dst_betweenness = Null /\ r.dst_community = Null
                    /\ exported(t.nameOrig) =>
                          /\ r.src_pagerank = Node(store, t.nameOrig).pagerank
                          /\ r.src_degree = Node(store, t.nameOrig).degree
                          /\ r.src_betweenness = Node(store, t.nameOrig).betweenness
                    /\ exported(t.nameDest) =>
                          /\ r.dst_pagerank = Node(store, t.nameDest).pagerank
                          /\ r.dst_degree = Node(store, t.nameDest).degree
                          /\ r.dst_betweenness = Node(store, t.nameDest).betweenness
    /\ stage = "done" =>
          /\ Len(X) = Len(datasetCsv)
          /\ \A i \in 1 .. Len(X) : \A k \in 1 .. 7 :
                LET cell == datasetCsv[i][features[k]]
                IN  X[i][k] = IF cell = Null THEN 0 ELSE cell

\* a trained dataset of two transactions, one from an account without an
\* exported row to an account with one, whose null columns became 0
C8_Witness ==
    /\ stage = "done" /\ Len(txCsv) = 2
    /\ \E i \in 1 .. Len(txCsv) :
          /\ txCsv[i].nameOrig = 0 /\ txCsv[i].nameDest = 1 /\ store[1] = "full"
          /\ datasetCsv[i].src_pagerank = Null /\ datasetCsv[i].dst_pagerank = 11
          /\ X[i][2] = 0 /\ X[i][3] = 11

\* C9: the record get_graph_features returns has non-null pagerank, degree
\* and betweenness for every store and account id, so that the vector built
\* by /score holds no null, as the trainer's zero imputation has it.
C9_NoNullFeature ==
    \A w \in Workers :
        Scoring(w) =>
            /\ SrcFetched(w) => \A k \in FeatureKeys : loc[w].src[k] # Null
            /\ DstFetched(w) => \A k \in FeatureKeys : loc[w].dst[k] # Null
            /\ pc[w] = "done" =>
                  /\ \A i \in 1 .. Len(loc[w].features) : loc[w].features[i] # Null
                  /\ loc[w].features =
                        DesignMatrix(<<DatasetRowOf(req[w],
                                         GetGraphFeatures(store, req[w].nameOrig),
                                         GetGraphFeatures(store, req[w].nameDest))>>)[1]

\* C10: every session a handler opens is closed when the handler returns or
\* fails, also when its query raised and with handlers interleaved: finished
\* requests hold no open session, and a /score call holds at most one.
C10_SessionsClosed ==
    \A w \in Workers :
        /\ open[w] \in {0, 1}
        /\ pc[w] \in {"idle", "done", "failed"} => open[w] = 0
        /\ open[w] = 1 <=> pc[w] \in {"src_run", "dst_run", "health_run", "query_run"}

\* a request whose query raised has finished without a session while another
\* worker holds one
C10_Witness ==
    \E w, u \in Workers :
        /\ w # u
        /\ pc[w] = "failed" /\ loc[w].nq = 1 /\ loc[w].faults = 1 /\ open[w] = 0
        /\ pc[u] = "query_run" /\ open[u] = 1

====
